---- MODULE Spec2Model ----
(***************************************************************************)
(* Model of src/bin/report.rs: the `report` binary of twitter-watch.       *)
(* One run of main(): the CSV reader delivers the rows of data.csv, the    *)
(* selected arm (ScreenNames or Suspensions) parses and buckets them per   *)
(* UTC date, sorts, and prints the Markdown report to standard output.     *)
(*                                                                         *)
(* Text is modelled as a sequence of characters (one-character strings);   *)
(* the literal pieces of an avatar URL are kept as multi-character chunks. *)
(* A CSV row is a sequence of fields.                                      *)
(***************************************************************************)
EXTENDS Integers, Sequences, FiniteSets, TLC

VARIABLES command, input, files, pos, first_field_count, by_date,
          date_records, idx, out, pc, err

vars == <<command, input, files, pos, first_field_count, by_date,
          date_records, idx, out, pc, err>>

(***************************************************************************)
(* Program constants.                                                      *)
(***************************************************************************)
REPORTED_LIMIT == 10
SCREEN_NAMES_FOLLOWERS_COUNT_LIMIT == 200
SUSPENSIONS_FOLLOWERS_COUNT_LIMIT == 200
SecondsPerDay == 86400

(***************************************************************************)
(* Bounds of the model.                                                    *)
(***************************************************************************)
MaxRows == 4

(***************************************************************************)
(* Option values and the Option::zip chains of the parsers.                *)
(***************************************************************************)
None == [ok |-> FALSE]
Some(v) == [ok |-> TRUE, val |-> v]

(***************************************************************************)
(* str::parse for the integer and boolean types.                           *)
(***************************************************************************)
Digits == {"0", "1", "2", "3", "4", "5", "6", "7", "8", "9"}

DigitVal(c) ==
    CASE c = "0" -> 0 [] c = "1" -> 1 [] c = "2" -> 2 [] c = "3" -> 3
      [] c = "4" -> 4 [] c = "5" -> 5 [] c = "6" -> 6 [] c = "7" -> 7
      [] c = "8" -> 8 [] c = "9" -> 9

RECURSIVE DecValue(_)
DecValue(s) ==
    IF s = <<>> THEN 0
    ELSE DecValue(SubSeq(s, 1, Len(s) - 1)) * 10 + DigitVal(s[Len(s)])

RECURSIVE StripZeros(_)
StripZeros(s) ==
    IF s # <<>> /\ s[1] = "0" THEN StripZeros(Tail(s)) ELSE s

\* a > b for digit sequences of equal length
RECURSIVE DigitsGreater(_, _)
DigitsGreater(a, b) ==
    IF a = <<>> THEN FALSE
    ELSE IF DigitVal(a[1]) # DigitVal(b[1]) THEN DigitVal(a[1]) > DigitVal(b[1])
    ELSE DigitsGreater(Tail(a), Tail(b))

\* the magnitude overflows the type whose largest magnitude is `max`
Overflows(digits, max) ==
    LET d == StripZeros(digits) IN
    \/ Len(d) > Len(max)
    \/ Len(d) = Len(max) /\ DigitsGreater(d, max)

U64Max == <<"1","8","4","4","6","7","4","4","0","7","3","7","0","9","5","5","1","6","1","5">>
I64Max == <<"9","2","2","3","3","7","2","0","3","6","8","5","4","7","7","5","8","0","7">>
I64MinMagnitude == <<"9","2","2","3","3","7","2","0","3","6","8","5","4","7","7","5","8","0","8">>

AllDigits(s) == s # <<>> /\ \A i \in 1..Len(s) : s[i] \in Digits

\* parse::<u64>() and parse::<usize>() (64-bit target): an optional "+", then digits
ParseU64(s) ==
    LET body == IF s # <<>> /\ s[1] = "+" THEN Tail(s) ELSE s IN
    IF ~AllDigits(body) \/ Overflows(body, U64Max) THEN None
    ELSE Some(DecValue(body))

ParseUsize(s) == ParseU64(s)

\* parse::<i64>(): an optional "+" or "-", then digits
ParseI64(s) ==
    LET neg  == s # <<>> /\ s[1] = "-"
        body == IF s # <<>> /\ s[1] \in {"+", "-"} THEN Tail(s) ELSE s
    IN  IF ~AllDigits(body) THEN None
        ELSE IF neg THEN (IF Overflows(body, I64MinMagnitude) THEN None
                          ELSE Some(0 - DecValue(body)))
        ELSE IF Overflows(body, I64Max) THEN None
        ELSE Some(DecValue(body))

\* parse::<bool>(): exactly "true" or "false"
ParseBool(s) ==
    IF s = <<"t","r","u","e">> THEN Some(TRUE)
    ELSE IF s = <<"f","a","l","s","e">> THEN Some(FALSE)
    ELSE None

\* DateTime<Utc>::date(): the UTC calendar day, as days since the epoch
DateOf(timestamp) == timestamp \div SecondsPerDay

(***************************************************************************)
(* make_profile_image_thumbnail_url.  An avatar URL is a sequence of       *)
(* chunks: scheme, host, directory, id, "/", the pieces of the file name.  *)
(* The character classes of the regular expression are the chunk sets.     *)
(***************************************************************************)
HostChunks == {"pbs.twimg.com", "abs.twimg.com"}          \* [^/]+
DigitChunks == {"42", "7"}                                \* \d+
ExtensionChunks == {".jpg", ".png"}                       \* \.[a-zA-Z0-9-]+

\* ^https?://([^/]+)/profile_images/(\d+)/(.*)_normal(\.[a-zA-Z0-9-]+)?$
\* A group that took no part in the match is None, as Captures::get gives it.
RegexCaptures(url) ==
    IF /\ Len(url) >= 6
       /\ url[1] \in {"http://", "https://"}
       /\ url[2] \in HostChunks
       /\ url[3] = "/profile_images/"
       /\ url[4] \in DigitChunks
       /\ url[5] = "/"
    THEN LET n == Len(url) IN
         IF url[n] = "_normal"
         THEN Some([g2 |-> Some(url[4]),
                    g3 |-> Some(SubSeq(url, 6, n - 1)),
                    g4 |-> None])
         ELSE IF n >= 7 /\ url[n - 1] = "_normal" /\ url[n] \in ExtensionChunks
         THEN Some([g2 |-> Some(url[4]),
                    g3 |-> Some(SubSeq(url, 6, n - 2)),
                    g4 |-> Some(url[n])])
         ELSE None
    ELSE None

\* Option::zip
Zip(a, b) == IF a.ok /\ b.ok THEN Some(<<a.val, b.val>>) ELSE None

\* format!("./thumbnails/{}-{}_400x400{}", id, name, extension)
ThumbnailPath(id, name, extension) ==
    <<"./thumbnails/", id, "-">> \o name \o <<"_400x400", extension>>

\* base.join(&path).exists()
Exists(path, base) == path \in base

make_profile_image_thumbnail_url(profile_image_url, base) ==
    LET captures == RegexCaptures(profile_image_url)
        found ==
            IF ~captures.ok THEN None
            ELSE LET zipped == Zip(Zip(captures.val.g2, captures.val.g3),
                                   captures.val.g4)
                 IN  IF ~zipped.ok THEN None
                     ELSE LET path == ThumbnailPath(zipped.val[1][1],
                                                    zipped.val[1][2],
                                                    zipped.val[2])
                          IN  IF Exists(path, base) THEN Some(path) ELSE None
    IN  IF found.ok THEN found.val ELSE profile_image_url

(***************************************************************************)
(* The error values of the run.  A panic (an index out of bounds, an       *)
(* unwrap of Err) aborts the process without an Error value.               *)
(***************************************************************************)
NoError == [kind |-> "none"]
CsvError == [kind |-> "Csv"]
Panic == [kind |-> "panic"]
InvalidScreenNamesRecord(value) == [kind |-> "InvalidScreenNamesRecord", row |-> value]
InvalidSuspensionsRecord(value) == [kind |-> "InvalidSuspensionsRecord", row |-> value]

Ok(v) == [ok |-> TRUE, val |-> v]
Err(e) == [ok |-> FALSE, err |-> e]

(***************************************************************************)
(* impl TryFrom<csv::StringRecord> for ScreenNameRecord                    *)
(***************************************************************************)
ScreenNameTyped(value) ==
    Zip(Zip(Zip(Zip(ParseI64(value[1]), ParseU64(value[2])),
                ParseBool(value[3])), ParseBool(value[4])),
        ParseUsize(value[5]))

ScreenNameRecord_try_from(value) ==
    IF Len(value) = 8
    THEN LET typed == ScreenNameTyped(value) IN
         IF ~typed.ok THEN Err(InvalidScreenNamesRecord(value))
         ELSE Ok([timestamp            |-> typed.val[1][1][1][1],
                  user_id              |-> typed.val[1][1][1][2],
                  verified             |-> typed.val[1][1][2],
                  protected            |-> typed.val[1][2],
                  followers_count      |-> typed.val[2],
                  previous_screen_name |-> value[6],
                  new_screen_name      |-> value[7],
                  profile_image_url    |-> value[8]])
    ELSE Err(InvalidScreenNamesRecord(value))

(***************************************************************************)
(* impl TryFrom<csv::StringRecord> for SuspensionRecord                    *)
(***************************************************************************)
\* the reversal field: empty is Some(None), otherwise an i64 timestamp
ParseReversal(field) ==
    IF field = <<>> THEN Some(None)
    ELSE LET t == ParseI64(field) IN IF t.ok THEN Some(Some(t.val)) ELSE None

SuspensionTyped(value) ==
    Zip(Zip(Zip(Zip(Zip(Zip(ParseI64(value[1]), ParseReversal(value[2])),
                        ParseU64(value[3])), ParseI64(value[4])),
                ParseBool(value[6])), ParseBool(value[7])),
        ParseUsize(value[8]))

SuspensionRecord_try_from(value) ==
    IF Len(value) = 9
    THEN LET typed == SuspensionTyped(value) IN
         IF ~typed.ok THEN Err(InvalidScreenNamesRecord(value))
         ELSE Ok([timestamp         |-> typed.val[1][1][1][1][1][1],
                  reversal          |-> typed.val[1][1][1][1][1][2],
                  user_id           |-> typed.val[1][1][1][1][2],
                  created_at        |-> typed.val[1][1][1][2],
                  screen_name       |-> value[5],
                  verified          |-> typed.val[1][1][2],
                  protected         |-> typed.val[1][2],
                  followers_count   |-> typed.val[2],
                  profile_image_url |-> value[9]])
    ELSE Err(InvalidSuspensionsRecord(value))

(***************************************************************************)
(* csv::Reader::from_reader(..).records(): the reader is built with the    *)
(* crate's defaults, has_headers = true and flexible = false.  The first   *)
(* row of the file is kept as the header and never returned; every row     *)
(* (the header included) is checked against the field count of the first.  *)
(***************************************************************************)
\* read_byte_record_impl and add_record: the next row of the file
ReadRecordImpl(p, ffc) ==
    IF p >= Len(input) THEN [kind |-> "eof", pos |-> p, ffc |-> ffc]
    ELSE LET row == input[p + 1] IN
         IF ~ffc.ok
         THEN [kind |-> "record", row |-> row, pos |-> p + 1, ffc |-> Some(Len(row))]
         ELSE IF Len(row) # ffc.val
         THEN [kind |-> "error", pos |-> p + 1, ffc |-> ffc]
         ELSE [kind |-> "record", row |-> row, pos |-> p + 1, ffc |-> ffc]

\* read_record: with no header read yet, the first row becomes the header
\* and the row after it is returned
ReadRecord(p, ffc) ==
    LET first == ReadRecordImpl(p, ffc) IN
    IF ~ffc.ok /\ first.kind = "record"
    THEN ReadRecordImpl(first.pos, first.ffc)
    ELSE first

(***************************************************************************)
(* by_date.entry(date).or_default().push(record)                           *)
(***************************************************************************)
Push(map, date, record) ==
    IF date \in DOMAIN map
    THEN [map EXCEPT ![date] = Append(@, record)]
    ELSE map @@ (date :> <<record>>)

\* (mutant of Fail) the error is noted and the run goes on to the next row
FailAndContinue(e) == pc' = pc /\ err' = e /\ by_date' = by_date

\* the `?` operator of main, and a panic: the run ends here
Fail(e) == pc' = "failed" /\ err' = e /\ by_date' = by_date

(***************************************************************************)
(* records.sort_by_key(|record| (Reverse(record.followers_count),          *)
(* record.user_id)): a stable sort.                                        *)
(***************************************************************************)
\* (mutant of RecordKeyLess) the key without the user_id tie-break
RecordKeyLessNoTieBreak(a, b) == a.followers_count > b.followers_count

\* the key of a is smaller than the key of b
RecordKeyLess(a, b) ==
    \/ a.followers_count > b.followers_count
    \/ a.followers_count = b.followers_count /\ a.user_id < b.user_id

\* x, which followed every element of the sorted s, put after the elements
\* whose key is not greater
InsertRecord(x, s) ==
    LET later == {i \in 1..Len(s) : RecordKeyLess(x, s[i])}
        at == IF later = {} THEN Len(s) + 1
              ELSE CHOOSE i \in later : \A j \in later : i <= j
    IN  SubSeq(s, 1, at - 1) \o <<x>> \o SubSeq(s, at, Len(s))

RECURSIVE SortRecords(_)
SortRecords(records) ==
    IF records = <<>> THEN <<>>
    ELSE InsertRecord(records[Len(records)],
                      SortRecords(SubSeq(records, 1, Len(records) - 1)))

(***************************************************************************)
(* date_records.sort_by_key: the key is Reverse(date)                      *)
(***************************************************************************)
DateKeyLess(a, b) == a.date > b.date

InsertBucket(x, s) ==
    LET later == {i \in 1..Len(s) : DateKeyLess(x, s[i])}
        at == IF later = {} THEN Len(s) + 1
              ELSE CHOOSE i \in later : \A j \in later : i <= j
    IN  SubSeq(s, 1, at - 1) \o <<x>> \o SubSeq(s, at, Len(s))

RECURSIVE SortBuckets(_)
SortBuckets(buckets) ==
    IF buckets = <<>> THEN <<>>
    ELSE InsertBucket(buckets[Len(buckets)],
                      SortBuckets(SubSeq(buckets, 1, Len(buckets) - 1)))

\* HashMap::into_iter: the entries in an order the program does not control
Enumerations(S) ==
    {f \in [1..Cardinality(S) -> S] :
        \A i, j \in 1..Cardinality(S) : i # j => f[i] # f[j]}

(***************************************************************************)
(* Iterator adaptors of the renderer.                                      *)
(***************************************************************************)
Min(a, b) == IF a <= b THEN a ELSE b

\* .take(REPORTED_LIMIT)
Take(s, n) == SubSeq(s, 1, Min(n, Len(s)))

\* .iter().filter(|record| record.followers_count >= limit).count()
FilterCount(records, limit) ==
    Cardinality({i \in 1..Len(records) : records[i].followers_count >= limit})

\* (mutant of TakeWhile) "more than limit followers": > in place of >=
TakeWhileMoreThan(records, limit) ==
    LET below == {i \in 1..Len(records) : ~(records[i].followers_count > limit)}
        stop == IF below = {} THEN Len(records) + 1
                ELSE CHOOSE i \in below : \A j \in below : i <= j
    IN  SubSeq(records, 1, stop - 1)

\* .into_iter().take_while(|record| record.followers_count >= limit)
TakeWhile(records, limit) ==
    LET below == {i \in 1..Len(records) : ~(records[i].followers_count >= limit)}
        stop == IF below = {} THEN Len(records) + 1
                ELSE CHOOSE i \in below : \A j \in below : i <= j
    IN  SubSeq(records, 1, stop - 1)

\* the status column: the lock glyph, then the check mark
Status(record) ==
    (IF record.protected THEN <<"lock">> ELSE <<>>)
        \o (IF record.verified THEN <<"check">> ELSE <<>>)

(***************************************************************************)
(* The inputs of a run: the rows data.csv may hold and the thumbnail files *)
(* that may exist under the base directory.                                *)
(***************************************************************************)
TRUE_S == <<"t","r","u","e">>
FALSE_S == <<"f","a","l","s","e">>
TS_JAN1 == <<"1","6","0","9","4","5","9","2","0","0">>        \* 2021-01-01 00:00:00
TS_JAN1_LATE == <<"1","6","0","9","5","4","5","5","9","9">>   \* 2021-01-01 23:59:59
TS_JAN2 == <<"1","6","0","9","5","4","5","6","0","0">>        \* 2021-01-02 00:00:00
TS_CREATED == <<"1","2","3","0","7","6","8","0","0","0">>     \* 2009-01-01 00:00:00

URL_JPG == <<"https://", "pbs.twimg.com", "/profile_images/", "42", "/", "abc", "_normal", ".jpg">>
URL_NOEXT == <<"http://", "pbs.twimg.com", "/profile_images/", "7", "/", "xyz", "_normal">>
URL_DEFAULT == <<"https://", "abs.twimg.com", "/sticky/default_profile_images/", "default_profile", "_normal", ".png">>

THUMB_JPG == <<"./thumbnails/", "42", "-", "abc", "_400x400", ".jpg">>
THUMB_NOEXT == <<"./thumbnails/", "7", "-", "xyz", "_400x400">>
ThumbnailPool == {THUMB_JPG, THUMB_NOEXT}

SN_A == <<TS_JAN1, <<"5">>, FALSE_S, FALSE_S, <<"1","0","0","0">>, <<"old_a">>, <<"new_a">>, URL_JPG>>
SN_B == <<TS_JAN1_LATE, <<"3">>, FALSE_S, TRUE_S, <<"1","0","0","0">>, <<"old_b">>, <<"new_b">>, URL_NOEXT>>
SN_C == <<TS_JAN1, <<"9">>, TRUE_S, FALSE_S, <<"1","9","9">>, <<"old_c">>, <<"new_c">>, URL_DEFAULT>>
SN_D == <<TS_JAN2, <<"4">>, TRUE_S, TRUE_S, <<"2","0","0">>, <<"old_d">>, <<"new_d">>, URL_JPG>>
SN_SHORT == SubSeq(SN_D, 1, 7)
SN_BAD == [SN_D EXCEPT ![3] = <<"T","r","u","e">>]
ScreenNameRows == {SN_A, SN_B, SN_C, SN_D, SN_SHORT, SN_BAD}

SU_A == <<TS_JAN1, <<>>, <<"5">>, TS_CREATED, <<"name_a">>, FALSE_S, FALSE_S, <<"1","0","0","0">>, URL_JPG>>
SU_B == <<TS_JAN1_LATE, TS_JAN2, <<"3">>, TS_CREATED, <<"name_b">>, TRUE_S, FALSE_S, <<"1","0","0","0">>, URL_NOEXT>>
SU_C == <<TS_JAN2, <<>>, <<"9">>, TS_CREATED, <<"name_c">>, FALSE_S, TRUE_S, <<"1","9","9">>, URL_DEFAULT>>
SU_UNKNOWN == <<TS_JAN1, TS_JAN2, <<"7">>, <<>>, <<>>, <<>>, <<>>, <<>>, <<>>>>
SU_UNKNOWN4 == <<TS_JAN2, <<>>, <<"7">>, <<>>>>
SU_UNKNOWN_NO_TS == <<<<>>, <<>>, <<"7">>, <<>>, <<>>, <<>>, <<>>, <<>>, <<>>>>
SU_SHORT3 == <<TS_JAN1, <<>>, <<"5">>>>
SU_SHORT8 == SubSeq(SU_A, 1, 8)
SU_BAD == [SU_A EXCEPT ![3] = <<"a","b","c">>]
SuspensionRows ==
    {SU_A, SU_B, SU_C, SU_UNKNOWN, SU_UNKNOWN4, SU_UNKNOWN_NO_TS, SU_SHORT3,
     SU_SHORT8, SU_BAD}

RowsOf(cmd) == IF cmd = "ScreenNames" THEN ScreenNameRows ELSE SuspensionRows

DataFiles(cmd) == UNION {[1..n -> RowsOf(cmd)] : n \in 0..MaxRows}

Init ==
    /\ command \in {"ScreenNames", "Suspensions"}
    /\ input \in DataFiles(command)
    /\ files \in SUBSET ThumbnailPool
    /\ pos = 0
    /\ first_field_count = None
    /\ by_date = <<>>
    /\ date_records = <<>>
    /\ idx = 0
    /\ out = <<>>
    /\ pc = "read"
    /\ err = NoError

(***************************************************************************)
(* Command::ScreenNames                                                    *)
(***************************************************************************)
\* lines 24-30: one iteration of the row loop
ScreenNamesRow ==
    /\ pc = "read" /\ command = "ScreenNames"
    /\ LET result == ReadRecord(pos, first_field_count) IN
       /\ result.kind # "eof"
       /\ pos' = result.pos
       /\ first_field_count' = result.ffc
       /\ IF result.kind = "error" THEN Fail(CsvError)
          ELSE LET record == ScreenNameRecord_try_from(result.row) IN
               IF ~record.ok THEN Fail(record.err)
               ELSE /\ by_date' = Push(by_date, DateOf(record.val.timestamp), record.val)
                    /\ UNCHANGED <<pc, err>>
    /\ UNCHANGED <<command, input, files, date_records, idx, out>>

\* lines 32-40: the reader is exhausted; sort every bucket, then the buckets
ScreenNamesSort ==
    /\ pc = "read" /\ command = "ScreenNames"
    /\ LET result == ReadRecord(pos, first_field_count) IN
       /\ result.kind = "eof"
       /\ pos' = result.pos
       /\ first_field_count' = result.ffc
    /\ \E order \in Enumerations(DOMAIN by_date) :
          date_records' = SortBuckets(
              [i \in 1..Len(order) |->
                  [date |-> order[i], records |-> SortRecords(by_date[order[i]])]])
    /\ pc' = "preamble"
    /\ UNCHANGED <<command, input, files, by_date, idx, out, err>>

\* lines 42-53: the preamble and the heading of the contents
ScreenNamesPreamble ==
    /\ pc = "preamble" /\ command = "ScreenNames"
    /\ out' = out \o <<[kind |-> "title", text |-> "# Screen name changes"],
                       [kind |-> "notes", limit |-> SCREEN_NAMES_FOLLOWERS_COUNT_LIMIT],
                       [kind |-> "contents_heading"]>>
    /\ pc' = "contents"
    /\ idx' = 0
    /\ UNCHANGED <<command, input, files, pos, first_field_count, by_date,
                   date_records, err>>

\* lines 55-65: one entry of the contents
ScreenNamesContentsEntry ==
    /\ pc = "contents" /\ command = "ScreenNames"
    /\ idx < Len(Take(date_records, REPORTED_LIMIT))
    /\ LET bucket == date_records[idx + 1] IN
       out' = Append(out, [kind |-> "contents", date |-> bucket.date,
                           total |-> Len(bucket.records), anchor |-> bucket.date])
    /\ idx' = idx + 1
    /\ UNCHANGED <<command, input, files, pos, first_field_count, by_date,
                   date_records, pc, err>>

\* the table row of one record, lines 85-115
ScreenNamesTableRow(record) ==
    [kind |-> "row",
     href |-> record.profile_image_url,
     src |-> make_profile_image_thumbnail_url(record.profile_image_url, files),
     user_id |-> record.user_id,
     previous_screen_name |-> record.previous_screen_name,
     new_screen_name |-> record.new_screen_name,
     status |-> Status(record),
     followers_count |-> record.followers_count]

\* lines 67-118: the section of one bucket
ScreenNamesSection ==
    /\ pc = "sections" /\ command = "ScreenNames"
    /\ idx < Len(Take(date_records, REPORTED_LIMIT))
    /\ LET bucket == date_records[idx + 1]
           shown == TakeWhile(bucket.records, SCREEN_NAMES_FOLLOWERS_COUNT_LIMIT)
       IN  out' = out
                \o <<[kind |-> "heading", date |-> bucket.date],
                     [kind |-> "summary", found |-> Len(bucket.records),
                      included |-> FilterCount(bucket.records,
                                               SCREEN_NAMES_FOLLOWERS_COUNT_LIMIT)],
                     [kind |-> "table_open"]>>
                \o [i \in 1..Len(shown) |-> ScreenNamesTableRow(shown[i])]
                \o <<[kind |-> "table_close"]>>
    /\ idx' = idx + 1
    /\ UNCHANGED <<command, input, files, pos, first_field_count, by_date,
                   date_records, pc, err>>

(***************************************************************************)
(* Command::Suspensions                                                    *)
(***************************************************************************)
\* lines 126-142: one iteration of the row loop.  A row whose field at
\* index 3 is empty is an unknown-identity row and bypasses try_from.
SuspensionsRow ==
    /\ pc = "read" /\ command = "Suspensions"
    /\ LET result == ReadRecord(pos, first_field_count) IN
       /\ result.kind # "eof"
       /\ pos' = result.pos
       /\ first_field_count' = result.ffc
       /\ IF result.kind = "error" THEN Fail(CsvError)
          ELSE LET csv_record == result.row IN
               IF Len(csv_record) < 4 THEN Fail(Panic)
               ELSE IF csv_record[4] = <<>>
               THEN LET timestamp == ParseI64(csv_record[1]) IN
                    IF ~timestamp.ok THEN Fail(Panic)
                    ELSE /\ by_date' = Push(by_date, DateOf(timestamp.val), None)
                         /\ UNCHANGED <<pc, err>>
               ELSE LET record == SuspensionRecord_try_from(csv_record) IN
                    IF ~record.ok THEN Fail(record.err)
                    ELSE /\ by_date' = Push(by_date, DateOf(record.val.timestamp),
                                            Some(record.val))
                         /\ UNCHANGED <<pc, err>>
    /\ UNCHANGED <<command, input, files, date_records, idx, out>>

\* lines 147-150
UnknownCount(records) ==
    Cardinality({i \in 1..Len(records) : ~records[i].ok})

\* lines 152-155: filter_map(|maybe_record| maybe_record)
RECURSIVE FilterMap(_)
FilterMap(records) ==
    IF records = <<>> THEN <<>>
    ELSE (IF Head(records).ok THEN <<Head(records).val>> ELSE <<>>)
             \o FilterMap(Tail(records))

\* lines 144-164: the reader is exhausted; count the unknown rows of every
\* bucket, sort its records, then sort the buckets
SuspensionsSort ==
    /\ pc = "read" /\ command = "Suspensions"
    /\ LET result == ReadRecord(pos, first_field_count) IN
       /\ result.kind = "eof"
       /\ pos' = result.pos
       /\ first_field_count' = result.ffc
    /\ \E order \in Enumerations(DOMAIN by_date) :
          date_records' = SortBuckets(
              [i \in 1..Len(order) |->
                  [date |-> order[i],
                   records |-> SortRecords(FilterMap(by_date[order[i]])),
                   unknown_count |-> UnknownCount(by_date[order[i]])]])
    /\ pc' = "preamble"
    /\ UNCHANGED <<command, input, files, by_date, idx, out, err>>

\* lines 166-176
SuspensionsPreamble ==
    /\ pc = "preamble" /\ command = "Suspensions"
    /\ out' = out \o <<[kind |-> "title", text |-> "# Suspensions"],
                       [kind |-> "notes", limit |-> SUSPENSIONS_FOLLOWERS_COUNT_LIMIT],
                       [kind |-> "contents_heading"]>>
    /\ pc' = "contents"
    /\ idx' = 0
    /\ UNCHANGED <<command, input, files, pos, first_field_count, by_date,
                   date_records, err>>

\* lines 178-188
SuspensionsContentsEntry ==
    /\ pc = "contents" /\ command = "Suspensions"
    /\ idx < Len(Take(date_records, REPORTED_LIMIT))
    /\ LET bucket == date_records[idx + 1] IN
       out' = Append(out, [kind |-> "contents", date |-> bucket.date,
                           total |-> Len(bucket.records) + bucket.unknown_count,
                           anchor |-> bucket.date])
    /\ idx' = idx + 1
    /\ UNCHANGED <<command, input, files, pos, first_field_count, by_date,
                   date_records, pc, err>>

\* the table row of one record, lines 209-247; the dates print as %Y-%m-%d
SuspensionsTableRow(record) ==
    [kind |-> "row",
     href |-> record.profile_image_url,
     src |-> make_profile_image_thumbnail_url(record.profile_image_url, files),
     user_id |-> record.user_id,
     screen_name |-> record.screen_name,
     created_at |-> DateOf(record.created_at),
     reversal |-> IF record.reversal.ok THEN <<DateOf(record.reversal.val)>> ELSE <<>>,
     status |-> Status(record),
     followers_count |-> record.followers_count]

\* lines 190-250: the section of one bucket
SuspensionsSection ==
    /\ pc = "sections" /\ command = "Suspensions"
    /\ idx < Len(Take(date_records, REPORTED_LIMIT))
    /\ LET bucket == date_records[idx + 1]
           shown == TakeWhile(bucket.records, SUSPENSIONS_FOLLOWERS_COUNT_LIMIT)
       IN  out' = out
                \o <<[kind |-> "heading", date |-> bucket.date],
                     [kind |-> "summary",
                      found |-> Len(bucket.records) + bucket.unknown_count,
                      included |-> FilterCount(bucket.records,
                                               SUSPENSIONS_FOLLOWERS_COUNT_LIMIT)],
                     [kind |-> "table_open"]>>
                \o [i \in 1..Len(shown) |-> SuspensionsTableRow(shown[i])]
                \o <<[kind |-> "table_close"]>>
    /\ idx' = idx + 1
    /\ UNCHANGED <<command, input, files, pos, first_field_count, by_date,
                   date_records, pc, err>>

(***************************************************************************)
(* The ends of the two rendering loops, the same in both arms.             *)
(***************************************************************************)
\* the contents loop is over: lines 65-67 and 188-190
ContentsDone ==
    /\ pc = "contents"
    /\ ~(idx < Len(Take(date_records, REPORTED_LIMIT)))
    /\ pc' = "sections"
    /\ idx' = 0
    /\ UNCHANGED <<command, input, files, pos, first_field_count, by_date,
                   date_records, out, err>>

\* the section loop is over: Ok(()), line 254
ReportDone ==
    /\ pc = "sections"
    /\ ~(idx < Len(Take(date_records, REPORTED_LIMIT)))
    /\ pc' = "done"
    /\ UNCHANGED <<command, input, files, pos, first_field_count, by_date,
                   date_records, idx, out, err>>

Next ==
    \/ ScreenNamesRow
    \/ ScreenNamesSort
    \/ ScreenNamesPreamble
    \/ ScreenNamesContentsEntry
    \/ ScreenNamesSection
    \/ SuspensionsRow
    \/ SuspensionsSort
    \/ SuspensionsPreamble
    \/ SuspensionsContentsEntry
    \/ SuspensionsSection
    \/ ContentsDone
    \/ ReportDone

Spec == Init /\ [][Next]_vars

(***************************************************************************)
(* Reading the report back from standard output.                           *)
(***************************************************************************)
Headings == {i \in 1..Len(out) : out[i].kind = "heading"}

\* the table rows of the section whose heading is line i
SectionRows(i) ==
    LET close == CHOOSE j \in (i + 1)..Len(out) :
                    /\ out[j].kind = "table_close"
                    /\ \A k \in (i + 1)..(j - 1) : out[k].kind # "table_close"
    IN  SubSeq(out, i + 3, close - 1)

\* the bucket a heading was printed for
BucketOf(i) ==
    date_records[CHOOSE k \in 1..Len(date_records) : date_records[k].date = out[i].date]

Limit == IF command = "ScreenNames" THEN SCREEN_NAMES_FOLLOWERS_COUNT_LIMIT
         ELSE SUSPENSIONS_FOLLOWERS_COUNT_LIMIT

\* the number of rows the buckets hold
RECURSIVE Bucketed(_, _)
Bucketed(map, dates) ==
    IF dates = {} THEN 0
    ELSE LET d == CHOOSE x \in dates : TRUE
         IN  Len(map[d]) + Bucketed(map, dates \ {d})

\* the user id a raw row of the running report carries
RawUserId(row) == ParseU64(row[IF command = "ScreenNames" THEN 2 ELSE 3])

C8_ReadBeforeOutput ==
    /\ out # <<>> => /\ err = NoError
                     /\ pos = Len(input)
                     /\ pc \in {"contents", "sections", "done"}
    /\ err # NoError => /\ pc = "failed"
                        /\ out = <<>>
                        /\ date_records = <<>>
                        /\ Bucketed(by_date, DOMAIN by_date) = pos - 2
                        /\ ~ENABLED Next

\* a row is rejected after another was bucketed and before the last row
C8_Witness ==
    /\ err # NoError
    /\ by_date # <<>>
    /\ pos < Len(input)

(***************************************************************************)
(* C2.  On a finished run over an input with n distinct UTC detection      *)
(* dates the report has min(n, REPORTED_LIMIT) sections, for the most      *)
(* recent dates, in strictly decreasing date order, and the contents list  *)
(* the same dates in the same order.                                       *)
(***************************************************************************)
IsHeading(line) == line.kind = "heading"
IsContents(line) == line.kind = "contents"

\* the detection dates of the rows of data.csv from row `first` on
DatesFrom(first) ==
    {DateOf(ParseI64(input[i][1]).val) :
        i \in {j \in first..Len(input) : ParseI64(input[j][1]).ok}}

InputDates == DatesFrom(1)

RecentDatesRendered(dates) ==
    pc = "done" =>
        LET hs == SelectSeq(out, IsHeading)
            cs == SelectSeq(out, IsContents)
        IN  /\ Len(hs) = Min(Cardinality(dates), REPORTED_LIMIT)
            /\ Len(cs) = Len(hs)
            /\ \A k \in 1..Len(hs) : cs[k].date = hs[k].date
            /\ \A k \in 1..(Len(hs) - 1) : hs[k].date > hs[k + 1].date
            /\ \A k \in 1..Len(hs) : hs[k].date \in dates
            /\ \A d \in dates :
                  (\A k \in 1..Len(hs) : hs[k].date # d)
                      => \A k \in 1..Len(hs) : hs[k].date > d

C2_Claim == RecentDatesRendered(InputDates)

\* C2 without the first row of the file, which the reader keeps as header:
\* this much of the claim holds
C2_AfterFirstRow == RecentDatesRendered(DatesFrom(2))

(***************************************************************************)
(* C4.  For an avatar URL of the shape, with or without an extension, the  *)
(* src of the table row is ./thumbnails/<id>-<basename>_400x400[.<ext>]    *)
(* when that file exists under the base directory; otherwise, and for a    *)
(* URL not of the shape, it is the URL itself.                             *)
(***************************************************************************)
ClaimedPath(c) ==
    <<"./thumbnails/", c.g2.val, "-">> \o c.g3.val \o <<"_400x400">>
        \o (IF c.g4.ok THEN <<c.g4.val>> ELSE <<>>)

C4_Claim ==
    \A i \in 1..Len(out) :
        out[i].kind = "row" =>
            LET url == out[i].href
                c == RegexCaptures(url)
            IN  out[i].src = IF c.ok /\ ClaimedPath(c.val) \in files
                             THEN ClaimedPath(c.val)
                             ELSE url

(***************************************************************************)
(* C5.  In a finished suspensions report every unknown-identity row of     *)
(* data.csv counts 1 in the unknown-count of its UTC date, and the total   *)
(* of the contents entry and the "Found N" of the section of a date are    *)
(* the ranked records of the date plus its unknown-identity rows.          *)
(***************************************************************************)
\* the unknown-identity rows of data.csv, from row `first` on, detected on d
UnknownRowsOn(first, d) ==
    Cardinality({i \in first..Len(input) :
        /\ Len(input[i]) >= 4
        /\ input[i][4] = <<>>
        /\ ParseI64(input[i][1]).ok
        /\ DateOf(ParseI64(input[i][1]).val) = d})

UnknownRowsCounted(first) ==
    (command = "Suspensions" /\ pc = "done") =>
        /\ \A d \in DatesFrom(first) :
              UnknownRowsOn(first, d) > 0
                  => \E k \in 1..Len(date_records) : date_records[k].date = d
        /\ \A k \in 1..Len(date_records) :
              LET bucket == date_records[k]
                  total == Len(bucket.records) + UnknownRowsOn(first, bucket.date)
              IN  /\ bucket.unknown_count = UnknownRowsOn(first, bucket.date)
                  /\ \A i \in 1..Len(out) :
                        (out[i].kind = "contents" /\ out[i].date = bucket.date)
                            => out[i].total = total
                  /\ \A i \in Headings :
                        out[i].date = bucket.date => out[i + 1].found = total
                  /\ \A i \in Headings :
                        out[i].date = bucket.date
                            => Len(SectionRows(i)) <= Len(bucket.records)

C5_Claim == UnknownRowsCounted(1)

\* C5 without the first row of the file: this much of the claim holds
C5_AfterFirstRow == UnknownRowsCounted(2)

(***************************************************************************)
(* C6.  A screen-name row is accepted as a record exactly when it has 8    *)
(* fields and its five typed fields parse; any other row ends the run      *)
(* with InvalidScreenNamesRecord carrying the row, and adds nothing to a   *)
(* bucket.                                                                 *)
(***************************************************************************)
ScreenNameRowValid(row) ==
    /\ Len(row) = 8
    /\ ParseI64(row[1]).ok
    /\ ParseU64(row[2]).ok
    /\ ParseBool(row[3]).ok
    /\ ParseBool(row[4]).ok
    /\ ParseUsize(row[5]).ok

C6_Claim ==
    command = "ScreenNames" =>
        LET invalid == {i \in 1..pos : ~ScreenNameRowValid(input[i])} IN
        IF invalid = {}
        THEN /\ err = NoError
             /\ Bucketed(by_date, DOMAIN by_date) = pos
        ELSE LET first == CHOOSE i \in invalid : \A j \in invalid : i <= j IN
             /\ pos = first
             /\ err = InvalidScreenNamesRecord(input[first])
             /\ Bucketed(by_date, DOMAIN by_date) = first - 1

\* C6 for the rows that reach ScreenNameRecord::try_from (the rows after
\* the first with the field count of the first): this much of the claim holds
C6_RowsParsed ==
    command = "ScreenNames" =>
        LET handed == {i \in 2..pos : Len(input[i]) = Len(input[1])}
            invalid == {i \in handed : ~ScreenNameRowValid(input[i])}
        IN  IF invalid = {}
            THEN /\ err \in {NoError, CsvError}
                 /\ Bucketed(by_date, DOMAIN by_date) = Cardinality(handed)
            ELSE LET first == CHOOSE i \in invalid : \A j \in invalid : i <= j IN
                 /\ pos = first
                 /\ err = InvalidScreenNamesRecord(input[first])
                 /\ Bucketed(by_date, DOMAIN by_date) = first - 2

(***************************************************************************)
(* C7.  In the suspensions report a row whose field count is not 9, or     *)
(* whose detection timestamp does not parse, ends the run with a           *)
(* record-shape error carrying the row and is counted in no bucket, also   *)
(* when its field at index 3 is empty.  Stated for the rows the reader     *)
(* hands to the loop: the rows after the first that have the field count   *)
(* of the first.                                                           *)
(***************************************************************************)
C7_Claim ==
    command = "Suspensions" =>
        \A i \in 2..pos :
            ( /\ Len(input[i]) = Len(input[1])
              /\ (Len(input[i]) # 9 \/ ~ParseI64(input[i][1]).ok) )
            => /\ pos = i
               /\ err.kind \in {"InvalidSuspensionsRecord", "InvalidScreenNamesRecord"}
               /\ err.row = input[i]
               /\ Bucketed(by_date, DOMAIN by_date) = i - 2

(***************************************************************************)
(* C9.  data.csv has no header row: on a finished run every row of the     *)
(* file, the first included, is in the bucket of its date, so the bucket   *)
(* totals add up to the number of rows of the file.                        *)
(***************************************************************************)
C9_Claim ==
    pc = "done" => Bucketed(by_date, DOMAIN by_date) = Len(input)

\* C9 as the code has it: every row but the first is bucketed
C9_AllButFirstRow ==
    pc = "done" =>
        Bucketed(by_date, DOMAIN by_date) = IF input = <<>> THEN 0 ELSE Len(input) - 1

(***************************************************************************)
(* C10.  The suspension parser rejects a row only with                     *)
(* InvalidSuspensionsRecord, never with InvalidScreenNamesRecord; the      *)
(* screen-name parser rejects only with InvalidScreenNamesRecord.          *)
(***************************************************************************)
C10_Claim ==
    /\ command = "Suspensions" => err.kind # "InvalidScreenNamesRecord"
    /\ command = "ScreenNames" => err.kind # "InvalidSuspensionsRecord"

====
